---------------------------- MODULE Spec2Model ----------------------------
(***************************************************************************)
(* Model of the fitness workout optimizer's learning core:                 *)
(*   UCBBandit        (src/src/ucb_selector.py)                            *)
(*   QLearningAgent   (src/src/q_learner.py)                               *)
(*   reward functions (src/src/reward_calculator.py)                       *)
(*   RLController     (src/src/fitness_agents.py)                          *)
(*   training loop    (src/src/train_rl.py)                                *)
(*                                                                         *)
(* Python floats are modelled as exact rationals [num, den] in lowest      *)
(* terms, so every arithmetic step of the code is carried out as written   *)
(* but without rounding.                                                   *)
(***************************************************************************)
EXTENDS Integers, Sequences, FiniteSets, TLC

(***************************************************************************)
(* Exact rational arithmetic (the model's stand-in for float).             *)
(***************************************************************************)
Abs(x) == IF x < 0 THEN -x ELSE x

RECURSIVE Gcd(_, _)
Gcd(a, b) == IF b = 0 THEN a ELSE Gcd(b, a % b)

Lcm(a, b) == (a \div Gcd(a, b)) * b

\* n/d in lowest terms with a positive denominator.
Reduced(n, d, g) == [num |-> n \div g, den |-> d \div g]

Rat(n, d) ==
    IF d < 0 THEN Reduced(-n, -d, Gcd(Abs(n), Abs(d)))
    ELSE Reduced(n, d, Gcd(Abs(n), Abs(d)))

RInt(n) == [num |-> n, den |-> 1]

RAdd(a, b) ==
    IF a.num = 0 THEN b
    ELSE IF b.num = 0 THEN a
    ELSE IF a.den = b.den THEN Rat(a.num + b.num, a.den)
    ELSE LET l == Lcm(a.den, b.den)
         IN  Rat(a.num * (l \div a.den) + b.num * (l \div b.den), l)

RNeg(a) == [num |-> -a.num, den |-> a.den]

RSub(a, b) == RAdd(a, RNeg(b))

RMul(a, b) ==
    IF a.num = 0 \/ b.num = 0 THEN RInt(0)
    ELSE LET g1 == Gcd(Abs(a.num), b.den)
             g2 == Gcd(Abs(b.num), a.den)
         IN  [num |-> (a.num \div g1) * (b.num \div g2),
              den |-> (a.den \div g2) * (b.den \div g1)]

\* a / n for an integer n > 0.
RDivInt(a, n) == RMul(a, [num |-> 1, den |-> n])

RLess(a, b) ==
    IF a.den = b.den THEN a.num < b.num
    ELSE IF a.num <= 0 /\ b.num >= 0 THEN a.num < b.num
    ELSE IF a.num >= 0 /\ b.num <= 0 THEN FALSE
    ELSE LET l == Lcm(a.den, b.den)
         IN  a.num * (l \div a.den) < b.num * (l \div b.den)

RGreater(a, b) == RLess(b, a)

RLeq(a, b) == ~RLess(b, a)

\* max() of a non-empty sequence of rationals, from element i on.
RECURSIVE RMax(_, _)
RMax(s, i) ==
    IF i = Len(s) THEN s[i]
    ELSE LET rest == RMax(s, i + 1)
         IN  IF RLess(s[i], rest) THEN rest ELSE s[i]

\* sum() of a sequence of rationals.
RECURSIVE RSum(_)
RSum(s) == IF s = <<>> THEN RInt(0) ELSE RAdd(Head(s), RSum(Tail(s)))

\* Least k >= from with den | 10^k, where p = 10^from (den has only the
\* prime factors 2 and 5 here).
RECURSIVE ScaleFrom(_, _, _)
ScaleFrom(den, p, from) ==
    IF p % den = 0 THEN from ELSE ScaleFrom(den, p * 10, from + 1)

\* The number of decimal places of a.
Scale(a) == ScaleFrom(a.den, 1, 0)

\* Python's dict.get(key, default) / defaultdict read of a missing key.
Get(f, k, default) == IF k \in DOMAIN f THEN f[k] ELSE default

\* A dict with key k set to v (the key is created when missing).
Put(f, k, v) == (k :> v) @@ f

\* defaultdict.__getitem__: reading a missing key stores the default under it.
Touch(f, k, default) == IF k \in DOMAIN f THEN f ELSE Put(f, k, default)

Range(s) == {s[i] : i \in 1..Len(s)}

(***************************************************************************)
(* State.                                                                  *)
(***************************************************************************)
VARIABLES
    \* UCBBandit (ucb_selector.py:33-37)
    bandit_actions,     \* self.actions: the arms, in their fixed order
    q_values,           \* self.q_values: defaultdict(float), arm -> average
    action_counts,      \* self.action_counts: defaultdict(int), arm -> pulls
    total_steps,        \* self.total_steps
    \* QLearningAgent (q_learner.py:33-37)
    agent_actions,      \* self.actions
    alpha,              \* self.alpha
    gamma,              \* self.gamma
    epsilon,            \* self.epsilon
    q,                  \* self.q: defaultdict(float), (state, action) -> value
    \* train_rl.main (train_rl.py:116-127)
    episode,            \* the training loop's episode number
    scenario_index,     \* position of the inner loop in scenarios
    episode_total_reward,
    episode_total_exercises,
    \* RLController.run_episode (fitness_agents.py:268-342)
    pc,                 \* "main": between calls, "loop": at the while test
    scenario,           \* the scenario argument
    exercises,
    exercise_rewards,
    done,
    cur_state,          \* the local named state
    total_reward,
    total_exercises,
    \* observation of the calls made (not program state)
    step,               \* the last iteration of the episode loop
    iterations,         \* iterations of the episode loop in this episode
    steps_total,        \* iterations of the episode loop in this run
    step_rewards,       \* the rewards passed to q_agent.update in this episode
    call,               \* the last call on an object: operation, arguments, result
    update_count,       \* arm -> number of UCBBandit.update calls made on it
    update_sum,         \* arm -> sum of the rewards passed to those calls
    q_updates           \* number of QLearningAgent.update calls made

bandit_vars == <<bandit_actions, q_values, action_counts, total_steps>>

bandit_obs == <<update_count, update_sum>>

agent_vars == <<agent_actions, alpha, gamma, epsilon, q>>

main_vars == <<episode, scenario_index, episode_total_reward,
               episode_total_exercises>>

episode_vars == <<pc, scenario, exercises, exercise_rewards, done, cur_state,
                  total_reward, total_exercises>>

episode_obs == <<step, iterations, steps_total, step_rewards>>

vars == <<bandit_actions, q_values, action_counts, total_steps,
          agent_actions, alpha, gamma, epsilon, q,
          episode, scenario_index, episode_total_reward,
          episode_total_exercises,
          pc, scenario, exercises, exercise_rewards, done, cur_state,
          total_reward, total_exercises,
          step, iterations, steps_total, step_rewards,
          call, update_count, update_sum, q_updates>>

(***************************************************************************)
(* Bounds of the model.                                                    *)
(***************************************************************************)
\* UCBBandit.select_action calls made in one run of the bandit specification.
MaxSelects == 2
\* UCBBandit.update calls made in one run of the bandit specification
\* (over all arms together).
MaxUpdates == 4
\* QLearningAgent.update calls made in one run of the agent specification.
MaxQUpdates == 2
\* Repetitions of one QLearningAgent.update call in the repetition
\* specification.
MaxRepeats == 4
\* Longest exercise list given to the reward and state functions.
MaxLen == 4
\* Longest reward list given to the state function.
MaxRewards == 2
\* Iterations of the episode loop made in one training run.
MaxSteps == 7
\* Q-values are kept while they are exact to this many decimal places; an
\* update whose result needs more is not taken.
MaxScale == 7

(***************************************************************************)
(* Inputs.                                                                 *)
(***************************************************************************)
\* The arms named by the constructor's documentation (ucb_selector.py:29).
docstring_categories == <<"strength", "cardio", "flexibility">>

\* The arms the training script passes (train_rl.py:62-72).
exercise_categories ==
    <<"strength", "cardio", "flexibility", "compound", "isolation",
      "hiit", "plyometric", "yoga", "low_impact">>

\* The values compute_category_reward can return (reward_calculator.py:35-42).
CategoryRewards == {RInt(1), Rat(1, 2), Rat(-1, 5), RInt(0)}

\* The actions the training script gives the agent (train_rl.py:83).
train_actions == <<"add_strength", "add_cardio", "add_flexibility", "finalize">>

\* Values random.random() can return: floats in [0.0, 1.0).
RandomDraws == {RInt(0), Rat(1, 2)}

NoCall == [op |-> "none"]

(***************************************************************************)
(* UCBBandit (src/src/ucb_selector.py).                                    *)
(***************************************************************************)
\* __init__: empty statistics, no selection made.
UCBBandit_init(actions) ==
    /\ bandit_actions = actions
    /\ q_values = <<>>
    /\ action_counts = <<>>
    /\ total_steps = 0

\* FirstUnpulled with the selection itself counted as a pull of the arm.
RECURSIVE FirstUnpulledCounting(_, _)
FirstUnpulledCounting(i, counts) ==
    IF i > Len(bandit_actions)
    THEN [found |-> FALSE, counts |-> counts]
    ELSE LET action == bandit_actions[i]
             read   == Touch(counts, action, 0)
         IN  IF read[action] = 0
             THEN [found |-> TRUE, ret |-> action,
                   counts |-> Put(read, action, 1)]
             ELSE FirstUnpulledCounting(i + 1, read)

\* FirstUnpulled with the counts read but no arm ever returned.
RECURSIVE FirstUnpulledSkipped(_, _)
FirstUnpulledSkipped(i, counts) ==
    IF i > Len(bandit_actions)
    THEN [found |-> FALSE, counts |-> counts]
    ELSE FirstUnpulledSkipped(i + 1, Touch(counts, bandit_actions[i], 0))

\* FirstUnpulled with the arms walked from the last to the first.
RECURSIVE FirstUnpulledReversed(_, _)
FirstUnpulledReversed(i, counts) ==
    IF i > Len(bandit_actions)
    THEN [found |-> FALSE, counts |-> counts]
    ELSE LET action == bandit_actions[Len(bandit_actions) + 1 - i]
             read   == Touch(counts, action, 0)
         IN  IF read[action] = 0
             THEN [found |-> TRUE, ret |-> action, counts |-> read]
             ELSE FirstUnpulledReversed(i + 1, read)

\* Phase 1 of select_action, from arm number i on: the loop reads
\* action_counts[action] for each arm in turn (a defaultdict read, which
\* stores 0 under a missing key) and returns the first arm read as 0.
\* found = FALSE when the loop runs to its end.
RECURSIVE FirstUnpulled(_, _)
FirstUnpulled(i, counts) ==
    IF i > Len(bandit_actions)
    THEN [found |-> FALSE, counts |-> counts]
    ELSE LET action == bandit_actions[i]
             read   == Touch(counts, action, 0)
         IN  IF read[action] = 0
             THEN [found |-> TRUE, ret |-> action, counts |-> read]
             ELSE FirstUnpulled(i + 1, read)

\* Phase 2 compares  q_values[a] + c * sqrt(log(total_steps) / n_a)  over the
\* arms.  The square root and the logarithm have no exact integer model, so
\* the comparison is decided where the order of the scores follows from the
\* order of the terms (c > 0, log(total_steps) >= 0, and log(1) = 0) and left
\* open elsewhere.  ScoreGreater(b, a): the score of b is certainly greater.
ScoreGreater(b, a, qv, counts, steps) ==
    IF steps = 1
    THEN RGreater(qv[b], qv[a])
    ELSE /\ RLeq(qv[a], qv[b])
         /\ counts[b] <= counts[a]
         /\ (RLess(qv[a], qv[b]) \/ counts[b] < counts[a])

\* The arms that can have the maximal UCB score (best_actions, line 73).
BestArms(qv, counts, steps) ==
    {a \in Range(bandit_actions) :
        ~\E b \in Range(bandit_actions) : ScoreGreater(b, a, qv, counts, steps)}

\* A loop over self.actions that reads f[action] for every arm from arm
\* number i on (lines 60-64 and 103-107): each read of a missing key stores
\* the default.
RECURSIVE ReadAll(_, _, _)
ReadAll(i, f, default) ==
    IF i > Len(bandit_actions) THEN f
    ELSE ReadAll(i + 1, Touch(f, bandit_actions[i], default), default)

\* select_action(), lines 51-75.
UCBBandit_select_action ==
    /\ total_steps < MaxSelects
    /\ total_steps' = total_steps + 1
    /\ LET p1 == FirstUnpulled(1, action_counts)
       IN  /\ action_counts' = p1.counts
           /\ IF p1.found
              THEN /\ q_values' = q_values
                   /\ call' = [op |-> "bandit.select_action", phase |-> 1,
                               ret |-> p1.ret]
              ELSE LET qv == ReadAll(1, q_values, RInt(0))
                   IN  /\ q_values' = qv
                       /\ \E best \in BestArms(qv, p1.counts, total_steps') :
                             call' = [op |-> "bandit.select_action",
                                      phase |-> 2, ret |-> best]
    /\ UNCHANGED <<bandit_actions, update_count, update_sum>>

\* The statistics after update(action, reward), lines 88-93.
UCBBandit_update_counts(counts, action) ==
    Put(counts, action, Get(counts, action, 0) + 1)

\* The incremental mean with the divisor one too large.
UCBBandit_update_q_values_off_by_one(qv, counts, action, reward) ==
    LET n     == UCBBandit_update_counts(counts, action)[action]
        old_q == Get(qv, action, RInt(0))
    IN  Put(qv, action, RAdd(old_q, RDivInt(RSub(reward, old_q), n + 1)))

UCBBandit_update_q_values(qv, counts, action, reward) ==
    LET n     == UCBBandit_update_counts(counts, action)[action]
        old_q == Get(qv, action, RInt(0))
    IN  Put(qv, action, RAdd(old_q, RDivInt(RSub(reward, old_q), n)))

\* The number of update calls made so far, over the arms from number i on.
RECURSIVE UpdatesMade(_)
UpdatesMade(i) ==
    IF i > Len(bandit_actions) THEN 0
    ELSE update_count[bandit_actions[i]] + UpdatesMade(i + 1)

\* UCBBandit_update with the update counted as a selection step too.
UCBBandit_update_stepping(action, reward) ==
    /\ action_counts' = UCBBandit_update_counts(action_counts, action)
    /\ q_values' = UCBBandit_update_q_values(q_values, action_counts,
                                             action, reward)
    /\ update_count' = [update_count EXCEPT ![action] = @ + 1]
    /\ update_sum' = [update_sum EXCEPT ![action] = RAdd(@, reward)]
    /\ total_steps' = total_steps + 1
    /\ UNCHANGED bandit_actions

\* update(action, reward), lines 88-93.
UCBBandit_update(action, reward) ==
    /\ action_counts' = UCBBandit_update_counts(action_counts, action)
    /\ q_values' = UCBBandit_update_q_values(q_values, action_counts,
                                             action, reward)
    /\ update_count' = [update_count EXCEPT ![action] = @ + 1]
    /\ update_sum' = [update_sum EXCEPT ![action] = RAdd(@, reward)]
    /\ UNCHANGED <<bandit_actions, total_steps>>

\* The dict get_statistics() builds (lines 102-108).
Statistics(qv, counts) ==
    [a \in Range(bandit_actions) |->
        [avg_reward |-> Get(qv, a, RInt(0)), count |-> Get(counts, a, 0)]]

\* get_statistics(): its reads go through the two defaultdicts.
UCBBandit_get_statistics ==
    /\ q_values' = ReadAll(1, q_values, RInt(0))
    /\ action_counts' = ReadAll(1, action_counts, 0)
    /\ call' = [op |-> "bandit.get_statistics",
                ret |-> Statistics(q_values, action_counts)]
    /\ UNCHANGED <<bandit_actions, total_steps, update_count, update_sum>>

(***************************************************************************)
(* QLearningAgent (src/src/q_learner.py).                                  *)
(***************************************************************************)
\* __init__: the parameters as given, an empty Q-table.
QLearningAgent_init(actions, a, g, e) ==
    /\ agent_actions = actions
    /\ alpha = a
    /\ gamma = g
    /\ epsilon = e
    /\ q = <<>>

\* ReadActions with unseen pairs stored at an optimistic 1.0.
RECURSIVE ReadActionsOptimistic(_, _, _)
ReadActionsOptimistic(i, qt, state) ==
    IF i > Len(agent_actions) THEN qt
    ELSE ReadActionsOptimistic(i + 1,
             Touch(qt, <<state, agent_actions[i]>>, RInt(1)), state)

\* self.q[(state, a)] read for every a of self.actions from number i on
\* (lines 57 and 77): each read of a missing key stores 0.0 under it.
RECURSIVE ReadActions(_, _, _)
ReadActions(i, qt, state) ==
    IF i > Len(agent_actions) THEN qt
    ELSE ReadActions(i + 1, Touch(qt, <<state, agent_actions[i]>>, RInt(0)), state)

\* The exploration test with <= in place of <.
ExploresInclusive(u) == RLeq(u, epsilon)

\* random.random() < self.epsilon, for the draw u (line 53).
Explores(u) == RLess(u, epsilon)

\* max_q (line 58) and max_next_q (line 77).
MaxQ(qt, state) ==
    RMax([i \in 1..Len(agent_actions) |->
             Get(qt, <<state, agent_actions[i]>>, RInt(0))], 1)

\* The actions whose Q-value in state equals max_q.
WithValue(qt, state, max_q) ==
    {a \in Range(agent_actions) : Get(qt, <<state, a>>, RInt(0)) = max_q}

\* best_actions (line 61).
BestActions(qt, state) == WithValue(qt, state, MaxQ(qt, state))

\* select_action(state) for the draw u: the actions it can return, each with
\* the branch taken and the Q-table it leaves (lines 53-62).
QLearningAgent_select_action(qt, state, u) ==
    IF Explores(u)
    THEN {[ret |-> a, explore |-> TRUE, q |-> qt] : a \in Range(agent_actions)}
    ELSE {[ret |-> a, explore |-> FALSE, q |-> ReadActions(1, qt, state)] :
             a \in BestActions(qt, state)}

\* UpdatedQ with the discount factor left out of the target.
UpdatedQ_undiscounted(old_q, reward, max_next_q) ==
    RAdd(old_q, RMul(alpha, RSub(RAdd(reward, max_next_q), old_q)))

\* UpdatedQ with the reward alone as the target.
UpdatedQ_terminal(old_q, reward, max_next_q) ==
    RAdd(old_q, RMul(alpha, RSub(reward, old_q)))

\* The value update() stores (lines 80-85).
UpdatedQ(old_q, reward, max_next_q) ==
    RAdd(old_q, RMul(alpha, RSub(RAdd(reward, RMul(gamma, max_next_q)), old_q)))

\* QLearningAgent_update with the table rebuilt from the updated pair alone.
QLearningAgent_update_fresh(qt, state, action, reward, next_state) ==
    Put(<<>>, <<state, action>>,
        UpdatedQ(Get(qt, <<state, action>>, RInt(0)), reward,
                 MaxQ(qt, next_state)))

\* The Q-table after update(state, action, reward, next_state), lines 77-85.
QLearningAgent_update(qt, state, action, reward, next_state) ==
    Put(ReadActions(1, qt, next_state), <<state, action>>,
        UpdatedQ(Get(qt, <<state, action>>, RInt(0)), reward,
                 MaxQ(qt, next_state)))

\* The stored value stays exact to MaxScale decimal places.
UpdateFits(qt, state, action, reward, next_state) ==
    /\ Scale(Get(qt, <<state, action>>, RInt(0))) + Scale(alpha) <= MaxScale
    /\ Scale(reward) + Scale(alpha) <= MaxScale
    /\ Scale(gamma) + Scale(MaxQ(qt, next_state)) + Scale(alpha) <= MaxScale

\* get_q_table_size(), line 89.
QLearningAgent_get_q_table_size(qt) == Cardinality(DOMAIN qt)

(***************************************************************************)
(* The bandit on its own: any interleaving of its three operations.        *)
(***************************************************************************)
NoStep == [action |-> "none"]

\* No training run is in progress.
NoRun ==
    /\ episode = 0
    /\ scenario_index = 0
    /\ episode_total_reward = RInt(0)
    /\ episode_total_exercises = 0
    /\ pc = "main"
    /\ scenario = <<>>
    /\ exercises = <<>>
    /\ exercise_rewards = <<>>
    /\ done = FALSE
    /\ cur_state = <<>>
    /\ total_reward = RInt(0)
    /\ total_exercises = 0
    /\ step = NoStep
    /\ iterations = 0
    /\ steps_total = 0
    /\ step_rewards = <<>>

run_vars == <<main_vars, episode_vars, episode_obs>>

InitBandit ==
    /\ UCBBandit_init(docstring_categories)
    /\ QLearningAgent_init(train_actions, Rat(1, 10), Rat(9, 10), Rat(1, 10))
    /\ NoRun
    /\ call = NoCall
    /\ update_count = [a \in Range(docstring_categories) |-> 0]
    /\ update_sum = [a \in Range(docstring_categories) |-> RInt(0)]
    /\ q_updates = 0

BanditSelect ==
    /\ UCBBandit_select_action
    /\ UNCHANGED <<agent_vars, q_updates, run_vars>>

BanditUpdate ==
    \E action \in Range(bandit_actions), reward \in CategoryRewards :
        /\ UpdatesMade(1) < MaxUpdates
        /\ UCBBandit_update(action, reward)
        /\ call' = [op |-> "bandit.update", action |-> action, reward |-> reward]
        /\ UNCHANGED <<agent_vars, q_updates, run_vars>>

BanditGetStatistics ==
    /\ UCBBandit_get_statistics
    /\ UNCHANGED <<agent_vars, q_updates, run_vars>>

NextBandit == BanditSelect \/ BanditUpdate \/ BanditGetStatistics

SpecBandit == InitBandit /\ [][NextBandit]_vars

(***************************************************************************)
(* Properties of the bandit.                                               *)
(***************************************************************************)
\* What a caller reads as an arm's statistics.
PullCount(counts, a) == Get(counts, a, 0)
AverageReward(qv, a) == Get(qv, a, RInt(0))

\* The first arm, in the order of self.actions, that has no pull.
FirstZeroArm ==
    bandit_actions[CHOOSE i \in 1..Len(bandit_actions) :
        /\ PullCount(action_counts, bandit_actions[i]) = 0
        /\ \A j \in 1..(i - 1) : PullCount(action_counts, bandit_actions[j]) # 0]

\* C6: whenever some arm has pullCount 0, a select_action call (the only
\* operation that advances total_steps) returns the first such arm in the
\* fixed arm order; it never returns an arm with pullCount >= 1 then.
C6_ColdStartReturnsFirstUnpulled ==
    [][(/\ total_steps' # total_steps
        /\ \E a \in Range(bandit_actions) : PullCount(action_counts, a) = 0)
       => /\ call'.op = "bandit.select_action"
          /\ call'.ret = FirstZeroArm
          /\ PullCount(action_counts, call'.ret) = 0]_vars

\* C6 witness: select_action has just returned an unpulled arm that is not
\* the first of the list, the arms before it having been pulled.
C6_Witness ==
    /\ call.op = "bandit.select_action"
    /\ call.phase = 1
    /\ call.ret = bandit_actions[3]
    /\ PullCount(action_counts, bandit_actions[1]) >= 1
    /\ PullCount(action_counts, bandit_actions[2]) >= 1

\* C8: an arm's averageReward or pullCount changes only in an update call on
\* that very arm: select_action and get_statistics change no arm's
\* statistics, and update(arm, r) changes those of no other arm.
C8_StatisticsChangedOnlyByUpdate ==
    [][\A a \in Range(bandit_actions) :
          (\/ PullCount(action_counts', a) # PullCount(action_counts, a)
           \/ AverageReward(q_values', a) # AverageReward(q_values, a))
          => (call'.op = "bandit.update" /\ call'.action = a)]_vars

\* C8 witness: after select_action and get_statistics calls on a bandit whose
\* arms have different statistics, an update has changed one arm.
C8_Witness ==
    /\ call.op = "bandit.update"
    /\ total_steps >= 1
    /\ DOMAIN q_values = Range(bandit_actions)
    /\ \E a, b \in Range(bandit_actions) :
          /\ a # call.action /\ b # call.action /\ a # b
          /\ PullCount(action_counts, a) >= 1
          /\ PullCount(action_counts, b) = 0

\* C10: for every arm, pullCount equals the number of update calls made on
\* it and averageReward equals the arithmetic mean of the rewards passed to
\* those calls (0.0 when there were none), whatever select_action and
\* get_statistics calls were interleaved.
C10_IncrementalMeanIsMean ==
    \A a \in Range(bandit_actions) :
        /\ PullCount(action_counts, a) = update_count[a]
        /\ AverageReward(q_values, a) =
              IF update_count[a] = 0 THEN RInt(0)
              ELSE RDivInt(update_sum[a], update_count[a])

\* C10 witness: an arm updated three times with rewards that are not all
\* equal, with select_action calls in between.
C10_Witness ==
    \E a \in Range(bandit_actions) :
        /\ update_count[a] >= 3
        /\ total_steps >= 1
        /\ AverageReward(q_values, a) \notin CategoryRewards

(***************************************************************************)
(* The Q-learning agent on its own: any interleaving of its operations.    *)
(***************************************************************************)
\* States the controller's encoder produces (fitness_agents.py:230).
AgentStates ==
    {<<0, "low", "plenty", "beginner">>, <<1, "high", "medium", "beginner">>}

\* Step rewards the controller passes to update (fitness_agents.py:286-328).
AgentRewards == {Rat(19, 20), RInt(-1)}

\* The exploration rates: none, and the training script's (train_rl.py:86).
AgentEpsilons == {RInt(0), Rat(1, 10)}

InitAgent ==
    /\ UCBBandit_init(docstring_categories)
    /\ \E e \in AgentEpsilons :
          QLearningAgent_init(train_actions, Rat(1, 10), Rat(9, 10), e)
    /\ NoRun
    /\ call = NoCall
    /\ update_count = [a \in Range(docstring_categories) |-> 0]
    /\ update_sum = [a \in Range(docstring_categories) |-> RInt(0)]
    /\ q_updates = 0

AgentSelect ==
    \E state \in AgentStates, u \in RandomDraws :
        \E o \in QLearningAgent_select_action(q, state, u) :
            /\ q' = o.q
            /\ call' = [op |-> "agent.select_action", state |-> state,
                        explore |-> o.explore, ret |-> o.ret]
            /\ UNCHANGED <<agent_actions, alpha, gamma, epsilon, q_updates,
                           bandit_vars, bandit_obs, run_vars>>

AgentUpdate ==
    \E state \in AgentStates, action \in Range(agent_actions),
       reward \in AgentRewards, next_state \in AgentStates :
        /\ q_updates < MaxQUpdates
        /\ UpdateFits(q, state, action, reward, next_state)
        /\ q' = QLearningAgent_update(q, state, action, reward, next_state)
        /\ q_updates' = q_updates + 1
        /\ call' = [op |-> "agent.update", state |-> state, action |-> action,
                    reward |-> reward, next_state |-> next_state]
        /\ UNCHANGED <<agent_actions, alpha, gamma, epsilon,
                       bandit_vars, bandit_obs, run_vars>>

AgentGetQTableSize ==
    /\ call' = [op |-> "agent.get_q_table_size",
                ret |-> QLearningAgent_get_q_table_size(q)]
    /\ UNCHANGED <<agent_vars, q_updates, bandit_vars, bandit_obs, run_vars>>

NextAgent == AgentSelect \/ AgentUpdate \/ AgentGetQTableSize

SpecAgent == InitAgent /\ [][NextAgent]_vars

(***************************************************************************)
(* Properties of the Q-learning agent.                                     *)
(***************************************************************************)
\* Q(state, action) as every reader sees it: 0.0 for an unseen pair.
QValue(qt, state, action) == Get(qt, <<state, action>>, RInt(0))

ReadOnlyCall(c) ==
    c.op \in {"agent.select_action", "agent.get_q_table_size"}

\* C7 as stated: select_action (either branch) and get_q_table_size leave
\* the set of materialized (state, action) entries and their values unchanged.
C7_SelectLeavesTableUnchanged ==
    [][ReadOnlyCall(call') => q' = q]_vars

\* C7 amended: select_action and get_q_table_size never remove an entry and
\* never change the value of one; get_q_table_size and the explore branch of
\* select_action leave the table as it is, and the exploit branch adds
\* exactly the missing entries (state, a) of the queried state, each at 0.0.
C7_SelectOnlyMaterializesZeros ==
    [][ReadOnlyCall(call') =>
          /\ \A k \in DOMAIN q : k \in DOMAIN q' /\ q'[k] = q[k]
          /\ \A k \in DOMAIN q' \ DOMAIN q : q'[k] = RInt(0)
          /\ IF call'.op = "agent.select_action" /\ ~call'.explore
             THEN DOMAIN q' = DOMAIN q \cup
                     {<<call'.state, a>> : a \in Range(agent_actions)}
             ELSE q' = q]_vars

\* C7 witness: an exploit-branch select_action on a state none of whose
\* pairs had been seen, in a table that update has already written.
C7_Witness ==
    /\ call.op = "agent.select_action"
    /\ ~call.explore
    /\ q_updates >= 1
    /\ \A a \in Range(agent_actions) :
          <<call.state, a>> \in DOMAIN q /\ q[<<call.state, a>>] = RInt(0)
    /\ \E k \in DOMAIN q : q[k] # RInt(0)

\* C9: with epsilon = 0, select_action returns an action whose Q-value in the
\* given state is the maximum over all actions, unseen pairs counting as 0.0.
C9_GreedyWhenEpsilonZero ==
    [][(call'.op = "agent.select_action" /\ epsilon = RInt(0)) =>
          \A a \in Range(agent_actions) :
              RLeq(QValue(q, call'.state, a),
                   QValue(q, call'.state, call'.ret))]_vars

\* C9 witness: epsilon = 0 and select_action has answered for a state whose
\* actions have different Q-values, some above and some below the 0.0 of an
\* unseen pair.
C9_Witness ==
    /\ epsilon = RInt(0)
    /\ call.op = "agent.select_action"
    /\ \E a, b \in Range(agent_actions) :
          /\ RLess(QValue(q, call.state, a), RInt(0))
          /\ RLess(RInt(0), QValue(q, call.state, b))
          /\ call.ret = b

(***************************************************************************)
(* Reward functions (src/src/reward_calculator.py).                        *)
(***************************************************************************)
\* x in a Python list.
In(x, list) == x \in Range(list)

\* compute_category_reward(scenario, chosen_category), lines 35-42.
compute_category_reward(scn, chosen_category) ==
    IF chosen_category = scn["best_category"] THEN RInt(1)
    ELSE IF In(chosen_category, Get(scn, "good_categories", <<>>)) THEN Rat(1, 2)
    ELSE IF In(chosen_category, Get(scn, "bad_categories", <<>>)) THEN Rat(-1, 5)
    ELSE RInt(0)

\* The goal-alignment part of compute_workout_quality, lines 80-86: the loop
\* of lines 81-82 only binds category, so the test of lines 83-86 runs once,
\* after it, on the last exercise's category.
goal_alignment(exercises_selected, scn) ==
    LET category == exercises_selected[Len(exercises_selected)]["category"]
    IN  IF category = scn["best_category"] THEN RAdd(RInt(0), Rat(2, 5))
        ELSE IF In(category, Get(scn, "good_categories", <<>>))
             THEN RAdd(RInt(0), Rat(1, 5))
        ELSE RInt(0)

\* compute_workout_quality(exercises_selected, scenario), lines 61-89.
compute_workout_quality(exercises_selected, scn) ==
    IF exercises_selected = <<>> THEN RInt(0)
    ELSE LET unique_types ==
                 Cardinality({exercises_selected[i]["category"] :
                                 i \in 1..Len(exercises_selected)})
             variety_score  == RMul(RInt(unique_types), Rat(3, 10))
             estimated_time == Len(exercises_selected) * 15
             time_score     == IF estimated_time <= scn["time_available"]
                               THEN Rat(1, 2) ELSE Rat(-3, 10)
         IN  RAdd(RAdd(variety_score, time_score),
                  goal_alignment(exercises_selected, scn))

\* get_intensity_level with the thresholds themselves counted in.
get_intensity_level_inclusive(avg_reward) ==
    IF RLeq(Rat(7, 10), avg_reward) THEN "high"
    ELSE IF RLeq(Rat(3, 10), avg_reward) THEN "medium"
    ELSE "low"

\* get_intensity_level(avg_reward), lines 107-112.
get_intensity_level(avg_reward) ==
    IF RGreater(avg_reward, Rat(7, 10)) THEN "high"
    ELSE IF RGreater(avg_reward, Rat(3, 10)) THEN "medium"
    ELSE "low"

\* get_time_bucket(exercises_count, time_available), lines 129-137.
get_time_bucket(exercises_count, time_available) ==
    LET estimated_time_used == exercises_count * 15
        time_remaining      == time_available - estimated_time_used
    IN  IF time_remaining > 30 THEN "plenty"
        ELSE IF time_remaining > 15 THEN "medium"
        ELSE "limited"

\* str.lower() on the fitness levels the scenarios use.
Lower(str) ==
    CASE str \in {"beginner", "Beginner", "BEGINNER"} -> "beginner"
      [] str \in {"intermediate", "Intermediate", "INTERMEDIATE"} -> "intermediate"
      [] str \in {"advanced", "Advanced", "ADVANCED"} -> "advanced"

\* get_fitness_level_bucket(fitness_level), line 151.
get_fitness_level_bucket(fitness_level) == Lower(fitness_level)

(***************************************************************************)
(* Agents and RLController (src/src/fitness_agents.py).                    *)
(***************************************************************************)
\* str.title() on the category names.
Title(category) ==
    CASE category = "strength" -> "Strength"
      [] category = "cardio" -> "Cardio"
      [] category = "flexibility" -> "Flexibility"
      [] category = "compound" -> "Compound"
      [] category = "isolation" -> "Isolation"
      [] category = "hiit" -> "Hiit"
      [] category = "plyometric" -> "Plyometric"
      [] category = "yoga" -> "Yoga"
      [] category = "low_impact" -> "Low_Impact"

\* WorkoutAgent.select_exercise(category, fitness_level), lines 52-57.
select_exercise(category, fitness_level) ==
    [category |-> category, difficulty |-> fitness_level,
     name |-> <<Title(category), " Exercise">>, estimated_time |-> 15]

\* IntensityAgent.adjust_intensity(exercise, target_level), lines 85-86.
adjust_intensity(exercise, target_level) ==
    [k \in DOMAIN exercise \cup {"adjusted_difficulty"} |->
        IF k = "adjusted_difficulty" THEN target_level ELSE exercise[k]]

\* IntensityAgent.get_intensity_recommendation, lines 103-107.
get_intensity_recommendation(fitness_level, exercises_count) ==
    IF exercises_count >= 4
    THEN CASE fitness_level = "advanced" -> "intermediate"
           [] fitness_level = "intermediate" -> "beginner"
           [] fitness_level = "beginner" -> "beginner"
           [] OTHER -> fitness_level
    ELSE fitness_level

\* RLController._get_state(exercises, exercise_rewards, scenario), lines 214-230.
get_state(exs, ex_rewards, scn) ==
    LET exercise_count == Len(exs)
        count_bucket   == IF exercise_count >= 3 THEN 3 ELSE exercise_count
        avg_reward     == IF ex_rewards # <<>>
                          THEN RDivInt(RSum(ex_rewards), Len(ex_rewards))
                          ELSE RInt(0)
        intensity      == get_intensity_level(avg_reward)
        time_status    == get_time_bucket(exercise_count, scn["time_available"])
        fitness        == get_fitness_level_bucket(scn["fitness_level"])
    IN  <<count_bucket, intensity, time_status, fitness>>

\* Python's None.
None == "None"

\* map_action_to_category with the entry of add_flexibility missing.
map_action_to_category_incomplete(action) ==
    CASE action = "add_strength" -> "strength"
      [] action = "add_cardio" -> "cardio"
      [] OTHER -> None

\* map_action_to_category with add_flexibility mapped to the yoga arm.
map_action_to_category_yoga(action) ==
    CASE action = "add_strength" -> "strength"
      [] action = "add_cardio" -> "cardio"
      [] action = "add_flexibility" -> "yoga"
      [] OTHER -> None

\* RLController._map_action_to_category(action), lines 242-247.
map_action_to_category(action) ==
    CASE action = "add_strength" -> "strength"
      [] action = "add_cardio" -> "cardio"
      [] action = "add_flexibility" -> "flexibility"
      [] OTHER -> None

\* max_exercises, the safety limit of run_episode.
max_exercises == 6
\* num_episodes of the training script.
num_episodes == 50

\* The scenarios of the training run, in the order of the scenario file:
\* the one of the specification's examples, one with a capitalised fitness
\* level and little time, one without the optional bad_categories.
scenarios ==
    << [fitness_level |-> "intermediate", time_available |-> 60,
        best_category |-> "strength", good_categories |-> <<"compound">>,
        bad_categories |-> <<"yoga">>],
       [fitness_level |-> "Advanced", time_available |-> 40,
        best_category |-> "cardio", good_categories |-> <<"strength">>,
        bad_categories |-> <<"flexibility">>],
       [fitness_level |-> "beginner", time_available |-> 20,
        best_category |-> "yoga", good_categories |-> <<"flexibility">>] >>

\* An action list with an action the category mapper does not know.
unmapped_actions == <<"add_strength", "add_cardio", "add_hiit", "finalize">>

\* finalize_reward without the test for an empty exercise list.
finalize_reward_unguarded(exs, scn) == compute_workout_quality(exs, scn)

\* The step reward of a finalize step, lines 283-289.
finalize_reward(exs, scn) ==
    IF exs # <<>> THEN compute_workout_quality(exs, scn) ELSE RInt(-1)

\* add_reward with the cost of an exercise doubled.
add_reward_costly(category_reward) == RSub(category_reward, Rat(1, 10))

\* The step reward of an added exercise, line 325.
add_reward(category_reward) == RSub(category_reward, Rat(1, 20))

\* invalid_reward with the penalty left out.
invalid_reward_free == RInt(0)

\* The step reward of an action without a category, line 328.
invalid_reward == Rat(-1, 10)

\* The body of the episode loop for the selected action, lines 281-328: the
\* locals it leaves and the bandit updates it makes.
StepOutcome(action) ==
    IF action = "finalize"
    THEN [done |-> TRUE, exercises |-> exercises,
          exercise_rewards |-> exercise_rewards,
          total_exercises |-> total_exercises,
          step_reward |-> finalize_reward(exercises, scenario),
          updates |-> <<>>]
    ELSE LET category == map_action_to_category(action)
         IN  IF category # None
             THEN LET exercise ==
                          adjust_intensity(
                              select_exercise(category, scenario["fitness_level"]),
                              get_intensity_recommendation(
                                  scenario["fitness_level"], Len(exercises)))
                      category_reward ==
                          compute_category_reward(scenario, category)
                  IN  [done |-> done,
                       exercises |-> Append(exercises, exercise),
                       exercise_rewards |->
                           Append(exercise_rewards, category_reward),
                       total_exercises |-> total_exercises + 1,
                       step_reward |-> add_reward(category_reward),
                       updates |-> <<[action |-> category,
                                      reward |-> category_reward]>>]
             ELSE [done |-> done, exercises |-> exercises,
                   exercise_rewards |-> exercise_rewards,
                   total_exercises |-> total_exercises,
                   step_reward |-> invalid_reward,
                   updates |-> <<>>]

\* LoopCondition with the limit one exercise lower.
LoopConditionShort == ~done /\ total_exercises < max_exercises - 1

\* LoopCondition with the limit itself still allowed.
LoopConditionInclusive == ~done /\ total_exercises <= max_exercises

\* The while test of line 277.
LoopCondition == ~done /\ total_exercises < max_exercises

(***************************************************************************)
(* The training run (train_rl.main driving RLController.run_episode).      *)
(***************************************************************************)
\* main, lines 62-96: the bandit over the nine categories, the agent with the
\* training parameters and the given action list.
InitRun(actions) ==
    /\ UCBBandit_init(exercise_categories)
    /\ QLearningAgent_init(actions, Rat(1, 10), Rat(9, 10), Rat(1, 10))
    /\ episode = 1
    /\ scenario_index = 1
    /\ episode_total_reward = RInt(0)
    /\ episode_total_exercises = 0
    /\ pc = "main"
    /\ scenario = <<>>
    /\ exercises = <<>>
    /\ exercise_rewards = <<>>
    /\ done = FALSE
    /\ cur_state = <<>>
    /\ total_reward = RInt(0)
    /\ total_exercises = 0
    /\ step = NoStep
    /\ iterations = 0
    /\ steps_total = 0
    /\ step_rewards = <<>>
    /\ call = NoCall
    /\ update_count = [a \in Range(exercise_categories) |-> 0]
    /\ update_sum = [a \in Range(exercise_categories) |-> RInt(0)]
    /\ q_updates = 0

\* main calls controller.run_episode(scenario, compute_category_reward)
\* (train_rl.py:121-125); run_episode sets up its locals (lines 268-275).
StartEpisode ==
    /\ pc = "main"
    /\ episode <= num_episodes
    /\ steps_total < MaxSteps
    /\ LET scn == scenarios[scenario_index]
       IN  /\ scenario' = scn
           /\ cur_state' = get_state(<<>>, <<>>, scn)
    /\ exercises' = <<>>
    /\ exercise_rewards' = <<>>
    /\ done' = FALSE
    /\ total_reward' = RInt(0)
    /\ total_exercises' = 0
    /\ pc' = "loop"
    /\ step' = NoStep
    /\ iterations' = 0
    /\ step_rewards' = <<>>
    /\ call' = [op |-> "run_episode.enter"]
    /\ UNCHANGED <<bandit_vars, bandit_obs, agent_vars, q_updates, main_vars,
                   steps_total>>

\* One iteration of the while loop, lines 277-340.
LoopIteration ==
    /\ pc = "loop"
    /\ LoopCondition
    /\ steps_total < MaxSteps
    /\ \E u \in RandomDraws :
        \E sel \in QLearningAgent_select_action(q, cur_state, u) :
        \E action \in {sel.ret} :
         \E out \in {StepOutcome(action)} :
          \E next_state \in {get_state(out.exercises, out.exercise_rewards,
                                       scenario)} :
              /\ UpdateFits(sel.q, cur_state, action, out.step_reward, next_state)
              /\ IF out.updates # <<>>
                 THEN UCBBandit_update(out.updates[1].action,
                                       out.updates[1].reward)
                 ELSE UNCHANGED <<bandit_vars, bandit_obs>>
              /\ exercises' = out.exercises
              /\ exercise_rewards' = out.exercise_rewards
              /\ total_exercises' = out.total_exercises
              /\ done' = out.done
              /\ total_reward' = RAdd(total_reward, out.step_reward)
              /\ q' = QLearningAgent_update(sel.q, cur_state, action,
                                            out.step_reward, next_state)
              /\ cur_state' = next_state
              /\ step' = [action |-> action, state |-> cur_state,
                          step_reward |-> out.step_reward,
                          next_state |-> next_state]
              /\ call' = [op |-> "agent.update", state |-> cur_state,
                          action |-> action, reward |-> out.step_reward,
                          next_state |-> next_state]
              /\ step_rewards' = Append(step_rewards, out.step_reward)
    /\ iterations' = iterations + 1
    /\ steps_total' = steps_total + 1
    /\ q_updates' = q_updates + 1
    /\ UNCHANGED <<agent_actions, alpha, gamma, epsilon, main_vars, pc, scenario>>

\* The loop ends and run_episode returns (line 342); main adds the result to
\* the episode's totals and moves to the next scenario, or to the next
\* episode with fresh totals after the last one (train_rl.py:116-127).
Return ==
    /\ pc = "loop"
    /\ ~LoopCondition
    /\ pc' = "main"
    /\ call' = [op |-> "run_episode", ret |-> <<total_reward, total_exercises>>]
    /\ IF scenario_index < Len(scenarios)
       THEN /\ scenario_index' = scenario_index + 1
            /\ episode' = episode
            /\ episode_total_reward' = RAdd(episode_total_reward, total_reward)
            /\ episode_total_exercises' =
                  episode_total_exercises + total_exercises
       ELSE /\ scenario_index' = 1
            /\ episode' = episode + 1
            /\ episode_total_reward' = RInt(0)
            /\ episode_total_exercises' = 0
    /\ UNCHANGED <<bandit_vars, bandit_obs, agent_vars, q_updates, scenario,
                   exercises, exercise_rewards, done, cur_state, total_reward,
                   total_exercises, episode_obs>>

Next == StartEpisode \/ LoopIteration \/ Return

\* The training run as the script sets it up.
Init == InitRun(train_actions)

Spec == Init /\ [][Next]_vars

\* The same run with an agent one of whose actions the mapper does not know.
InitUnmapped == InitRun(unmapped_actions)

SpecUnmapped == InitUnmapped /\ [][Next]_vars

(***************************************************************************)
(* Properties of the episode loop.                                         *)
(***************************************************************************)
\* The transition is an iteration of the episode loop.
IsIteration == steps_total' # steps_total

\* The bandit's statistics are as they were.
BanditUntouched ==
    /\ q_values' = q_values
    /\ action_counts' = action_counts
    /\ total_steps' = total_steps
    /\ update_count' = update_count
    /\ update_sum' = update_sum

\* C1: in every state of run_episode the number of exercises added in the
\* episode is at most max_exercises (6), whatever the scenario and the
\* actions chosen.
C1_AtMostMaxExercises ==
    /\ total_exercises <= max_exercises
    /\ Len(exercises) <= max_exercises

\* C1 witness: an episode that has added max_exercises exercises.
C1_Witness ==
    /\ pc = "loop"
    /\ total_exercises = max_exercises
    /\ ~done

\* C2: with the agent's four actions, run_episode's loop makes at most
\* max_exercises (6) iterations: every iteration either finalizes or adds one
\* exercise, and after the sixth the loop test fails, so the call returns.
C2_LoopEndsWithinMaxExercises ==
    pc = "loop" =>
        /\ iterations <= max_exercises
        /\ iterations = total_exercises + (IF done THEN 1 ELSE 0)
        /\ (iterations = max_exercises => ~LoopCondition)

\* C2 witness: a sixth iteration that finalized after five additions.
C2_Witness ==
    /\ pc = "loop"
    /\ iterations = max_exercises
    /\ done
    /\ total_exercises = max_exercises - 1

\* C3: a finalize step leaves the episode Finalized with the step reward
\* -1.0 for an empty exercise list and the workout-quality score of the
\* accumulated exercises otherwise, adds no exercise and updates no bandit
\* statistics; and once Finalized the episode takes no further step: the
\* only thing that follows is the return.
C3_FinalizeEndsEpisode ==
    [][/\ (IsIteration /\ step'.action = "finalize") =>
              /\ done'
              /\ step'.step_reward =
                    IF exercises = <<>> THEN RInt(-1)
                    ELSE compute_workout_quality(exercises, scenario)
              /\ call'.reward = step'.step_reward
              /\ exercises' = exercises
              /\ exercise_rewards' = exercise_rewards
              /\ total_exercises' = total_exercises
              /\ BanditUntouched
       /\ (pc = "loop" /\ done) =>
              /\ ~IsIteration
              /\ pc' = "main"
              /\ q' = q
              /\ exercises' = exercises
              /\ BanditUntouched]_vars

\* C3 witness: a finalize step on a plan of two exercises of different
\* categories has been followed by the return.
C3_Witness ==
    /\ pc = "main"
    /\ done
    /\ step.action = "finalize"
    /\ Len(exercises) = 2
    /\ exercises[1]["category"] # exercises[2]["category"]
    /\ call.op = "run_episode"

\* C4: a step whose action maps to a category updates the bandit exactly once
\* with (category, categoryReward), appends exactly one exercise and one
\* reward, raises the exercise count by one, and passes
\* stepReward = categoryReward - 0.05 to the Q-update.
C4_AddStep ==
    [][(IsIteration /\ map_action_to_category(step'.action) # None) =>
          LET category == map_action_to_category(step'.action)
              category_reward == compute_category_reward(scenario, category)
          IN  /\ update_count' =
                    [update_count EXCEPT ![category] = @ + 1]
              /\ update_sum' =
                    [update_sum EXCEPT ![category] = RAdd(@, category_reward)]
              /\ \A a \in Range(bandit_actions) :
                    PullCount(action_counts', a) =
                        PullCount(action_counts, a)
                            + (IF a = category THEN 1 ELSE 0)
              /\ Len(exercises') = Len(exercises) + 1
              /\ SubSeq(exercises', 1, Len(exercises)) = exercises
              /\ exercises'[Len(exercises')]["category"] = category
              /\ exercise_rewards' = Append(exercise_rewards, category_reward)
              /\ total_exercises' = total_exercises + 1
              /\ step'.step_reward = RSub(category_reward, Rat(1, 20))
              /\ call' = [op |-> "agent.update", state |-> cur_state,
                          action |-> step'.action,
                          reward |-> RSub(category_reward, Rat(1, 20)),
                          next_state |-> cur_state']]_vars

\* C4 witness: add_flexibility in a scenario that lists flexibility as a bad
\* category, on a plan that already had an exercise.
C4_Witness ==
    /\ step.action = "add_flexibility"
    /\ step.step_reward = Rat(-1, 4)
    /\ Len(exercises) >= 2
    /\ exercise_rewards[Len(exercise_rewards)] = Rat(-1, 5)

\* C5: a step whose action is neither finalize nor one of the three mapped
\* add-actions leaves the exercise list, the reward list, the exercise count
\* and the bandit statistics unchanged, leaves the episode Running, and has
\* the step reward -0.1.
C5_UnmappedActionIsNoOp ==
    [][(/\ IsIteration
        /\ step'.action # "finalize"
        /\ step'.action \notin {"add_strength", "add_cardio", "add_flexibility"})
       => /\ exercises' = exercises
          /\ exercise_rewards' = exercise_rewards
          /\ total_exercises' = total_exercises
          /\ BanditUntouched
          /\ done' = FALSE
          /\ pc' = "loop"
          /\ step'.step_reward = Rat(-1, 10)
          /\ call'.reward = Rat(-1, 10)]_vars

\* C5 witness: the unmapped action taken on a plan that has an exercise.
C5_Witness ==
    /\ pc = "loop"
    /\ step.action = "add_hiit"
    /\ Len(exercises) >= 1
    /\ ~done

(***************************************************************************)
(* Properties of the training run.                                         *)
(***************************************************************************)
\* C11: over all the run_episode calls of a training run the learning state
\* is never reset: no step removes a Q-table entry, no step lowers an arm's
\* pullCount, and entering and leaving run_episode leave the Q-table and the
\* bandit statistics exactly as they are, so that every episode starts with
\* what the previous one left.
C11_LearningStateNeverReset ==
    [][/\ \A k \in DOMAIN q : k \in DOMAIN q'
       /\ \A a \in Range(bandit_actions) :
             PullCount(action_counts', a) >= PullCount(action_counts, a)
       /\ ~IsIteration => (q' = q /\ BanditUntouched)]_vars

\* C11 witness: the run_episode call on the second scenario has been entered
\* with a Q-table and pull counts that the first episode has written.
C11_Witness ==
    /\ call.op = "run_episode.enter"
    /\ scenario_index = 2
    /\ \E k \in DOMAIN q : q[k] # RInt(0)
    /\ \E a \in Range(bandit_actions) : PullCount(action_counts, a) >= 2

(***************************************************************************)
(* The scoring and state functions on their own: compute_workout_quality   *)
(* and RLController._get_state applied to given arguments.                 *)
(***************************************************************************)
\* The categories the controller's exercises can have (lines 242-246).
mapped_categories == {"strength", "cardio", "flexibility"}

\* The lists over S of length at most n.
ListsUpTo(S, n) == UNION {[1..k -> S] : k \in 0..n}

\* Rewards of single exercises: the best and the bad category's, and the two
\* thresholds of get_intensity_level.
RewardInputs == {RInt(1), Rat(7, 10), Rat(3, 10), Rat(-1, 5)}

\* The exercise list run_episode builds for the categories cats in the
\* scenario scn (fitness_agents.py:297-310).
ExercisesOf(cats, scn) ==
    [i \in 1..Len(cats) |->
        adjust_intensity(
            select_exercise(cats[i], scn["fitness_level"]),
            get_intensity_recommendation(scn["fitness_level"], i - 1))]

InitFunctions ==
    /\ UCBBandit_init(exercise_categories)
    /\ QLearningAgent_init(train_actions, Rat(1, 10), Rat(9, 10), Rat(1, 10))
    /\ episode = 0
    /\ scenario_index = 0
    /\ episode_total_reward = RInt(0)
    /\ episode_total_exercises = 0
    /\ pc = "main"
    /\ \E i \in 1..Len(scenarios) : scenario = scenarios[i]
    /\ \E cats \in ListsUpTo(mapped_categories, MaxLen) :
          exercises = ExercisesOf(cats, scenario)
    /\ exercise_rewards \in ListsUpTo(RewardInputs, MaxRewards)
    /\ done = FALSE
    /\ cur_state = <<>>
    /\ total_reward = RInt(0)
    /\ total_exercises = 0
    /\ step = NoStep
    /\ iterations = 0
    /\ steps_total = 0
    /\ step_rewards = <<>>
    /\ call = NoCall
    /\ update_count = [a \in Range(exercise_categories) |-> 0]
    /\ update_sum = [a \in Range(exercise_categories) |-> RInt(0)]
    /\ q_updates = 0

\* compute_workout_quality(exercises, scenario) is called.
ComputeWorkoutQuality ==
    /\ call' = [op |-> "compute_workout_quality",
                ret |-> compute_workout_quality(exercises, scenario)]
    /\ UNCHANGED <<bandit_vars, bandit_obs, agent_vars, q_updates, run_vars>>

\* controller._get_state(exercises, exercise_rewards, scenario) is called.
GetState ==
    /\ call' = [op |-> "get_state",
                ret |-> get_state(exercises, exercise_rewards, scenario)]
    /\ UNCHANGED <<bandit_vars, bandit_obs, agent_vars, q_updates, run_vars>>

NextFunctions == ComputeWorkoutQuality \/ GetState

SpecFunctions == InitFunctions /\ [][NextFunctions]_vars

(***************************************************************************)
(* Properties of the scoring and state functions.                          *)
(***************************************************************************)
\* C12 as stated: for a non-empty exercise list the goal-alignment part of
\* the workout quality (the score less its variety and time parts) is 0.4
\* times the number of exercises of the scenario's best category plus 0.2
\* times the number of exercises of one of its good categories.
C12_GoalAlignmentPerExercise ==
    (call.op = "compute_workout_quality" /\ exercises # <<>>) =>
        LET n       == Len(exercises)
            variety == RMul(RInt(Cardinality({exercises[i]["category"] :
                                                 i \in 1..n})), Rat(3, 10))
            time    == IF n * 15 <= scenario["time_available"]
                       THEN Rat(1, 2) ELSE Rat(-3, 10)
            best    == Cardinality({i \in 1..n :
                          exercises[i]["category"] = scenario["best_category"]})
            good    == Cardinality({i \in 1..n :
                          In(exercises[i]["category"],
                             Get(scenario, "good_categories", <<>>))})
        IN  RSub(RSub(call.ret, variety), time) =
                RAdd(RMul(RInt(best), Rat(2, 5)), RMul(RInt(good), Rat(1, 5)))

\* C13: _get_state returns (min(n, 3), intensity, timeBucket, lowercase
\* fitness level) for n exercises, where intensity is high for an average
\* reward above 0.7, medium above 0.3 and low otherwise (the average of an
\* empty reward list being 0.0) and timeBucket is plenty for more than 30
\* minutes left after 15 per exercise, medium for more than 15 and limited
\* otherwise; the call leaves its three arguments as they are.
C13_GetStateEncoding ==
    [][call'.op = "get_state" =>
          LET n   == Len(exercises)
              avg == IF exercise_rewards = <<>> THEN RInt(0)
                     ELSE RDivInt(RSum(exercise_rewards), Len(exercise_rewards))
              remaining == scenario["time_available"] - 15 * n
          IN  /\ call'.ret =
                    << IF n < 3 THEN n ELSE 3,
                       IF RLess(Rat(7, 10), avg) THEN "high"
                       ELSE IF RLess(Rat(3, 10), avg) THEN "medium" ELSE "low",
                       IF remaining > 30 THEN "plenty"
                       ELSE IF remaining > 15 THEN "medium" ELSE "limited",
                       Lower(scenario["fitness_level"]) >>
              /\ call'.ret[4] \in {"beginner", "intermediate", "advanced"}
              /\ exercises' = exercises
              /\ exercise_rewards' = exercise_rewards
              /\ scenario' = scenario]_vars

\* C13 witness: _get_state has answered for four exercises, rewards whose
\* average is exactly the threshold 0.7 and a capitalised fitness level.
C13_Witness ==
    /\ call.op = "get_state"
    /\ Len(exercises) = 4
    /\ exercise_rewards = <<RInt(1), Rat(7, 10), Rat(7, 10), Rat(3, 10)>>
        \/ exercise_rewards = <<Rat(7, 10), Rat(7, 10)>>
    /\ scenario["fitness_level"] = "Advanced"
    /\ call.ret = <<3, "medium", "limited", "advanced">>

(***************************************************************************)
(* One QLearningAgent.update call repeated on a fresh agent.               *)
(***************************************************************************)
\* Learning rates in (0, 1]: the training script's, a half and one.
RepeatAlphas == {Rat(1, 10), Rat(1, 2), RInt(1)}

\* Discount factors in [0, 1): none, a half and the training script's.
RepeatGammas == {RInt(0), Rat(1, 2), Rat(9, 10)}

\* Action lists: the training script's and a single action.
RepeatActions == {train_actions, <<"finalize">>}

InitRepeat ==
    /\ UCBBandit_init(docstring_categories)
    /\ \E actions \in RepeatActions, a \in RepeatAlphas, g \in RepeatGammas :
          QLearningAgent_init(actions, a, g, Rat(1, 10))
    /\ NoRun
    /\ call = NoCall
    /\ update_count = [a \in Range(docstring_categories) |-> 0]
    /\ update_sum = [a \in Range(docstring_categories) |-> RInt(0)]
    /\ q_updates = 0

\* update(s, a, reward, s): any arguments in the first call, the same ones in
\* every later call.
RepeatUpdate ==
    \E state \in AgentStates, action \in Range(agent_actions),
       reward \in AgentRewards :
        /\ q_updates < MaxRepeats
        /\ call.op = "agent.update" =>
              /\ state = call.state
              /\ action = call.action
              /\ reward = call.reward
        /\ UpdateFits(q, state, action, reward, state)
        /\ q' = QLearningAgent_update(q, state, action, reward, state)
        /\ q_updates' = q_updates + 1
        /\ call' = [op |-> "agent.update", state |-> state, action |-> action,
                    reward |-> reward, next_state |-> state]
        /\ UNCHANGED <<agent_actions, alpha, gamma, epsilon,
                       bandit_vars, bandit_obs, run_vars>>

NextRepeat == RepeatUpdate

SpecRepeat == InitRepeat /\ [][NextRepeat]_vars

\* C14: when update(s, a, reward, s) is repeated with a fixed reward from an
\* empty table, every update moves Q(s, a) in the direction of
\* reward / (1 - gamma) or leaves it: the new value is no farther from that
\* value than the old one and lies on the same side of it.
C14_RepeatedUpdateApproachesFixedPoint ==
    [][q_updates' # q_updates =>
          LET s      == call'.state
              a      == call'.action
              one_g  == RSub(RInt(1), gamma)
              target == RMul(call'.reward,
                             [num |-> one_g.den, den |-> one_g.num])
              old    == QValue(q, s, a)
              new    == QValue(q', s, a)
          IN  IF RLeq(old, target)
              THEN RLeq(old, new) /\ RLeq(new, target)
              ELSE RLeq(new, old) /\ RLeq(target, new)]_vars

\* C14 witness: the third repetition with the training script's parameters
\* and a positive reward has left Q(s, a) strictly between its previous
\* value and reward / (1 - gamma) = 9.5.
C14_Witness ==
    /\ q_updates = 3
    /\ alpha = Rat(1, 10)
    /\ gamma = Rat(9, 10)
    /\ call.op = "agent.update"
    /\ call.reward = Rat(19, 20)
    /\ call.action = "add_strength"
    /\ RLess(Rat(18905, 100000), QValue(q, call.state, call.action))
    /\ RLess(QValue(q, call.state, call.action), Rat(19, 2))

(***************************************************************************)
(* Properties of the bandit inside the training run.                       *)
(***************************************************************************)
\* C15: in every state of a training run only the arms strength, cardio and
\* flexibility can have a pullCount above 0; each of the other six arms of
\* the bandit has received no update and has pullCount 0 and averageReward
\* 0.0.
C15_OnlyMappedArmsPulled ==
    \A a \in Range(bandit_actions) \ {"strength", "cardio", "flexibility"} :
        /\ update_count[a] = 0
        /\ PullCount(action_counts, a) = 0
        /\ AverageReward(q_values, a) = RInt(0)

\* C15 witness: run_episode has returned, each of the three mapped arms has
\* been pulled and the bandit has its nine arms.
C15_Witness ==
    /\ call.op = "run_episode"
    /\ Len(bandit_actions) = 9
    /\ \A a \in {"strength", "cardio", "flexibility"} :
          PullCount(action_counts, a) >= 1
    /\ \E a \in {"strength", "cardio", "flexibility"} :
          AverageReward(q_values, a) # RInt(0)

\* C16: in any interleaving of the bandit's operations, a select_action call
\* that reaches the UCB score formula (phase 2) finds every arm with
\* pullCount >= 1 and, the call having counted itself, total_steps >= 1: the
\* formula divides by no zero count and takes the logarithm of no zero.
C16_ScoresNeverTakenAtZero ==
    [][(call'.op = "bandit.select_action" /\ total_steps' # total_steps
        /\ call'.phase = 2)
       => /\ total_steps' >= 1
          /\ \A a \in Range(bandit_actions) :
                /\ PullCount(action_counts, a) >= 1
                /\ a \in DOMAIN action_counts'
                /\ action_counts'[a] >= 1]_vars

\* C16 witness: the second select_action call has evaluated the formula,
\* arms having different pull counts.
C16_Witness ==
    /\ call.op = "bandit.select_action"
    /\ call.phase = 2
    /\ total_steps = 2
    /\ \E a, b \in Range(bandit_actions) :
          PullCount(action_counts, a) < PullCount(action_counts, b)

(***************************************************************************)
(* Properties of run_episode's bookkeeping.                                *)
(***************************************************************************)
\* C17: at every loop boundary of run_episode the exercise counter equals
\* the length of the exercise list and of the reward list; the pair
\* returned is (the sum of the step rewards passed to q_agent.update in the
\* episode, the number of exercises added); and an episode that returns
\* without a finalize step (its last step, a finalize step being followed
\* by no other, is not one) has added exactly max_exercises exercises.
C17_LoopBoundaryBookkeeping ==
    /\ pc = "loop" =>
          /\ total_exercises = Len(exercises)
          /\ total_exercises = Len(exercise_rewards)
          /\ Len(step_rewards) = iterations
    /\ call.op = "run_episode" =>
          /\ call.ret = <<RSum(step_rewards), Len(exercises)>>
          /\ step.action # "finalize" => call.ret[2] = max_exercises

\* C17 witness: run_episode has returned without a finalize step, with
\* exercises of different rewards.
C17_Witness ==
    /\ call.op = "run_episode"
    /\ ~done
    /\ step.action # "finalize"
    /\ Len(step_rewards) = max_exercises
    /\ \E i, j \in 1..Len(step_rewards) : step_rewards[i] # step_rewards[j]

C19_FinalizeBootstrapsOnSameState ==
    [][(IsIteration /\ step'.action = "finalize") =>
          /\ call'.op = "agent.update"
          /\ call'.state = cur_state
          /\ call'.next_state = cur_state
          /\ cur_state' = cur_state
          /\ \E m \in {QValue(q, cur_state, a) : a \in Range(agent_actions)} :
                /\ \A a \in Range(agent_actions) :
                      RLeq(QValue(q, cur_state, a), m)
                /\ LET old    == QValue(q, cur_state, "finalize")
                       target == RAdd(call'.reward, RMul(gamma, m))
                   IN  q'[<<cur_state, "finalize">>] =
                          RAdd(old, RMul(alpha, RSub(target, old)))]_vars

\* C19 witness: a finalize step in a state where another action has a
\* positive Q-value, so that the stored value differs from what the reward
\* alone would give.
C19_Witness ==
    /\ pc = "loop"
    /\ done
    /\ step.action = "finalize"
    /\ step.next_state = step.state
    /\ \E a \in Range(agent_actions) \ {"finalize"} :
          RLess(RInt(0), QValue(q, step.state, a))
    /\ QValue(q, step.state, "finalize") # RMul(alpha, step.step_reward)

=============================================================================
